---- MODULE Spec2Model ----
(***************************************************************************)
(* CipherVault (secure-box): password based file encryption in the        *)
(* browser.  The model covers src/lib/crypto.ts (deriveKey, encryptFile,   *)
(* decryptFile) and the EncryptionApp component that drives them.          *)
(*                                                                         *)
(* Data representation                                                     *)
(*   - a byte is an integer in 0..255, a byte buffer a sequence of bytes;  *)
(*   - a JavaScript string is the sequence of its code points (all model   *)
(*     strings stay below U+D800, so code points and UTF-16 units agree);  *)
(*   - a File / Blob is a record [name, type, bytes].                      *)
(*                                                                         *)
(* The Web Crypto primitives are not code of the repository.  They are     *)
(* modelled as ideal primitives: PBKDF2 is injective in (password, salt),  *)
(* AES-GCM accepts exactly the ciphertexts that were sealed under the same *)
(* key and nonce (the variable sealed records them).                       *)
(***************************************************************************)
EXTENDS Integers, Sequences, FiniteSets, TLC

\* ------------------------------------------------------------------------
\* Program constants (src/lib/crypto.ts:6-10)
\* ------------------------------------------------------------------------
KEY_LENGTH == 256
IV_LENGTH == 12
SALT_LENGTH == 16
ITERATIONS == 100000
\* AES-GCM default tag length in bytes (tagLength is not passed, so 128 bits)
TAG_BYTES == 16

\* ------------------------------------------------------------------------
\* Generic helpers
\* ------------------------------------------------------------------------
Min(a, b) == IF a < b THEN a ELSE b

Byte == 0..255

RECURSIVE Pow2(_)
Pow2(n) == IF n = 0 THEN 1 ELSE 2 * Pow2(n - 1)

\* bitwise xor of a byte with a one-bit mask 2^b
FlipBit(v, b) == IF (v \div Pow2(b)) % 2 = 0 THEN v + Pow2(b) ELSE v - Pow2(b)

RECURSIVE SumSeq(_)
SumSeq(s) == IF s = <<>> THEN 0 ELSE Head(s) + SumSeq(Tail(s))

\* TypedArray.prototype.slice(begin, end) for 0 <= begin, 0 <= end:
\* both indices are clamped to the length, an empty range gives an empty array
Slice(s, begin, end) ==
    LET b == Min(begin, Len(s))
        e == Min(end, Len(s))
    IN  IF e <= b THEN <<>> ELSE SubSeq(s, b + 1, e)

\* slice(begin) with no end
SliceFrom(s, begin) == Slice(s, begin, Len(s))

\* ------------------------------------------------------------------------
\* TextEncoder / TextDecoder (UTF-8)
\* ------------------------------------------------------------------------
REPLACEMENT == 65533
BOM == 65279

Utf8Char(cp) ==
    IF cp < 128 THEN <<cp>>
    ELSE IF cp < 2048 THEN <<192 + (cp \div 64), 128 + (cp % 64)>>
    ELSE <<224 + (cp \div 4096), 128 + ((cp \div 64) % 64), 128 + (cp % 64)>>

RECURSIVE Utf8Encode(_)
Utf8Encode(str) ==
    IF str = <<>> THEN <<>> ELSE Utf8Char(Head(str)) \o Utf8Encode(Tail(str))

IsCont(b) == b >= 128 /\ b <= 191

\* one decoding step at 1-based position i: [cp, used]
Utf8Step(bytes, i) ==
    LET b0 == bytes[i]
        n  == Len(bytes)
        b1 == IF i + 1 <= n THEN bytes[i + 1] ELSE 0
        b2 == IF i + 2 <= n THEN bytes[i + 2] ELSE 0
        lo == IF b0 = 224 THEN 160 ELSE 128
        hi == IF b0 = 237 THEN 159 ELSE 191
    IN  IF b0 < 128 THEN [cp |-> b0, used |-> 1]
        ELSE IF b0 >= 194 /\ b0 <= 223
             THEN IF IsCont(b1)
                  THEN [cp |-> (b0 - 192) * 64 + (b1 - 128), used |-> 2]
                  ELSE [cp |-> REPLACEMENT, used |-> 1]
        ELSE IF b0 >= 224 /\ b0 <= 239
             THEN IF ~(b1 >= lo /\ b1 <= hi)
                  THEN [cp |-> REPLACEMENT, used |-> 1]
                  ELSE IF ~IsCont(b2)
                  THEN [cp |-> REPLACEMENT, used |-> 2]
                  ELSE [cp |-> (b0 - 224) * 4096 + (b1 - 128) * 64 + (b2 - 128),
                        used |-> 3]
        ELSE [cp |-> REPLACEMENT, used |-> 1]

RECURSIVE Utf8DecodeFrom(_, _)
Utf8DecodeFrom(bytes, i) ==
    IF i > Len(bytes) THEN <<>>
    ELSE LET st == Utf8Step(bytes, i)
         IN  <<st.cp>> \o Utf8DecodeFrom(bytes, i + st.used)

\* new TextDecoder().decode(bytes): non-fatal, a leading BOM is dropped
Utf8Decode(bytes) ==
    LET raw == Utf8DecodeFrom(bytes, 1)
    IN  IF raw # <<>> /\ Head(raw) = BOM THEN Tail(raw) ELSE raw

\* ------------------------------------------------------------------------
\* JSON.stringify({name, type})
\* ------------------------------------------------------------------------
HexDigit(d) == IF d < 10 THEN 48 + d ELSE 87 + d

JsonQuoteChar(c) ==
    IF c = 34 THEN <<92, 34>>
    ELSE IF c = 92 THEN <<92, 92>>
    ELSE IF c = 8 THEN <<92, 98>>
    ELSE IF c = 9 THEN <<92, 116>>
    ELSE IF c = 10 THEN <<92, 110>>
    ELSE IF c = 12 THEN <<92, 102>>
    ELSE IF c = 13 THEN <<92, 114>>
    ELSE IF c < 32 THEN <<92, 117, 48, 48, HexDigit(c \div 16), HexDigit(c % 16)>>
    ELSE <<c>>

RECURSIVE JsonQuoteBody(_)
JsonQuoteBody(str) ==
    IF str = <<>> THEN <<>>
    ELSE JsonQuoteChar(Head(str)) \o JsonQuoteBody(Tail(str))

JsonQuote(str) == <<34>> \o JsonQuoteBody(str) \o <<34>>

\* {"name":<name>,"type":<type>}
JsonStringify(name, type) ==
    <<123, 34, 110, 97, 109, 101, 34, 58>> \o JsonQuote(name)
    \o <<44, 34, 116, 121, 112, 101, 34, 58>> \o JsonQuote(type) \o <<125>>

\* ------------------------------------------------------------------------
\* JSON.parse, for the texts decryptFile can meet in this model: an object
\* whose members are strings or null, the literal null, or a string; no
\* insignificant white space.  Every other text the model produces (empty
\* text, truncated record, stray bytes) is not JSON and raises SyntaxError.
\* Only the properties name and type are kept: decryptFile reads no other.
\* ------------------------------------------------------------------------
JsUndefined == [t |-> "undefined", s |-> <<>>]
JsNull == [t |-> "null", s |-> <<>>]
JsString(str) == [t |-> "string", s |-> str]

HexVal(c) ==
    IF c >= 48 /\ c <= 57 THEN c - 48
    ELSE IF c >= 97 /\ c <= 102 THEN c - 87
    ELSE IF c >= 65 /\ c <= 70 THEN c - 55
    ELSE -1

ScanFail == [ok |-> FALSE, val |-> <<>>, next |-> 0]

EscapeChar(e) ==
    IF e = 34 THEN 34
    ELSE IF e = 92 THEN 92
    ELSE IF e = 47 THEN 47
    ELSE IF e = 98 THEN 8
    ELSE IF e = 102 THEN 12
    ELSE IF e = 110 THEN 10
    ELSE IF e = 114 THEN 13
    ELSE IF e = 116 THEN 9
    ELSE -1

\* scans a string body from position i (just after the opening quote)
RECURSIVE ScanString(_, _, _)
ScanString(t, i, acc) ==
    IF i > Len(t) THEN ScanFail
    ELSE IF t[i] = 34 THEN [ok |-> TRUE, val |-> acc, next |-> i + 1]
    ELSE IF t[i] = 92 THEN
        IF i + 1 > Len(t) THEN ScanFail
        ELSE IF t[i + 1] = 117 THEN
            IF i + 5 > Len(t) THEN ScanFail
            ELSE LET h1 == HexVal(t[i + 2])
                     h2 == HexVal(t[i + 3])
                     h3 == HexVal(t[i + 4])
                     h4 == HexVal(t[i + 5])
                 IN  IF h1 < 0 \/ h2 < 0 \/ h3 < 0 \/ h4 < 0 THEN ScanFail
                     ELSE ScanString(t, i + 6,
                            Append(acc, h1 * 4096 + h2 * 256 + h3 * 16 + h4))
        ELSE IF EscapeChar(t[i + 1]) < 0 THEN ScanFail
        ELSE ScanString(t, i + 2, Append(acc, EscapeChar(t[i + 1])))
    ELSE IF t[i] < 32 THEN ScanFail
    ELSE ScanString(t, i + 1, Append(acc, t[i]))

ValueFail == [ok |-> FALSE, val |-> JsUndefined, next |-> 0]

\* a member value at position i: a string or null
ParseValue(t, i) ==
    IF i > Len(t) THEN ValueFail
    ELSE IF t[i] = 34 THEN
        LET r == ScanString(t, i + 1, <<>>)
        IN  IF r.ok THEN [ok |-> TRUE, val |-> JsString(r.val), next |-> r.next]
            ELSE ValueFail
    ELSE IF i + 3 <= Len(t) /\ SubSeq(t, i, i + 3) = <<110, 117, 108, 108>>
         THEN [ok |-> TRUE, val |-> JsNull, next |-> i + 4]
    ELSE ValueFail

ParseFail ==
    [ok |-> FALSE, kind |-> "none", hasName |-> FALSE, name |-> JsUndefined,
     hasType |-> FALSE, type |-> JsUndefined]

EmptyObject ==
    [ok |-> TRUE, kind |-> "object", hasName |-> FALSE, name |-> JsUndefined,
     hasType |-> FALSE, type |-> JsUndefined]

NAME_KEY == <<110, 97, 109, 101>>
TYPE_KEY == <<116, 121, 112, 101>>

\* members of an object from position i (a key is expected there); a later
\* member with the same key replaces an earlier one
RECURSIVE ParseMembers(_, _, _)
ParseMembers(t, i, obj) ==
    IF i > Len(t) \/ t[i] # 34 THEN ParseFail
    ELSE LET k == ScanString(t, i + 1, <<>>)
         IN  IF ~k.ok \/ k.next > Len(t) \/ t[k.next] # 58 THEN ParseFail
             ELSE LET v == ParseValue(t, k.next + 1)
                      o == IF k.val = NAME_KEY
                           THEN [obj EXCEPT !.hasName = TRUE, !.name = v.val]
                           ELSE IF k.val = TYPE_KEY
                           THEN [obj EXCEPT !.hasType = TRUE, !.type = v.val]
                           ELSE obj
                  IN  IF ~v.ok \/ v.next > Len(t) THEN ParseFail
                      ELSE IF t[v.next] = 44 THEN ParseMembers(t, v.next + 1, o)
                      ELSE IF t[v.next] = 125 /\ v.next = Len(t) THEN o
                      ELSE ParseFail

JsonParse(t) ==
    IF t = <<>> THEN ParseFail
    ELSE IF t = <<110, 117, 108, 108>> THEN [EmptyObject EXCEPT !.kind = "null"]
    ELSE IF t = <<123, 125>> THEN EmptyObject
    ELSE IF t[1] = 123 THEN ParseMembers(t, 2, EmptyObject)
    ELSE IF t[1] = 34 THEN
        LET r == ScanString(t, 2, <<>>)
        IN  IF r.ok /\ r.next = Len(t) + 1
            THEN [EmptyObject EXCEPT !.kind = "string"]
            ELSE ParseFail
    ELSE ParseFail

\* metadata.name / metadata.type : the property value, or undefined
PropName(metadata) == IF metadata.hasName THEN metadata.name ELSE JsUndefined
PropType(metadata) == IF metadata.hasType THEN metadata.type ELSE JsUndefined

\* JavaScript truthiness of the values above
Truthy(v) == v.t = "string" /\ v.s # <<>>

\* v || fallback
OrElse(v, fallback) == IF Truthy(v) THEN v.s ELSE fallback

OCTET_STREAM ==
    <<97, 112, 112, 108, 105, 99, 97, 116, 105, 111, 110, 47, 111, 99, 116,
      101, 116, 45, 115, 116, 114, 101, 97, 109>>
ARCHIVO_DESCIFRADO ==
    <<97, 114, 99, 104, 105, 118, 111, 95, 100, 101, 115, 99, 105, 102, 114,
      97, 100, 111>>
APPLICATION_ENCRYPTED ==
    <<97, 112, 112, 108, 105, 99, 97, 116, 105, 111, 110, 47, 101, 110, 99,
      114, 121, 112, 116, 101, 100>>
DOT_ENCRYPTED == <<46, 101, 110, 99, 114, 121, 112, 116, 101, 100>>

\* ------------------------------------------------------------------------
\* Uint32Array views (little-endian platform)
\* ------------------------------------------------------------------------
\* new Uint8Array(new Uint32Array([n]).buffer): n modulo 2^32, low byte first
Uint32Bytes(n) ==
    <<n % 256, (n \div 256) % 256, (n \div 65536) % 256, (n \div 16777216) % 256>>

\* new Uint32Array(bytes.buffer)[0] for a 4-byte buffer.  The value is only
\* ever used as a slice bound, so values from 2^30 on (far beyond any buffer)
\* are all represented by 2^30, which fits TLC's 32-bit integers.
UINT32_SATURATED == 1073741824
Uint32Value(b) ==
    IF b[4] >= 64 THEN UINT32_SATURATED
    ELSE b[1] + 256 * b[2] + 65536 * b[3] + 16777216 * b[4]

\* ------------------------------------------------------------------------
\* Web Crypto, idealised
\* ------------------------------------------------------------------------
NoKey == [pw |-> <<>>, salt |-> <<>>, iterations |-> 0, length |-> 0]

\* a derivation that never mixes the password in
DeriveKey_IgnoresPassword(pw, saltBytes) ==
    [pw |-> <<>>, salt |-> saltBytes,
     iterations |-> ITERATIONS, length |-> KEY_LENGTH]

\* PBKDF2-HMAC-SHA256 over the UTF-8 password: one key per (password, salt)
DeriveKey(pw, saltBytes) ==
    [pw |-> Utf8Encode(pw), salt |-> saltBytes,
     iterations |-> ITERATIONS, length |-> KEY_LENGTH]

\* the bytes below only give ciphertexts a concrete, key dependent shape of
\* the right length; which ciphertexts are authentic is decided by sealed
KeyStreamBase(k, nonce) == SumSeq(k.pw) + 3 * SumSeq(k.salt) + 5 * SumSeq(nonce)

CtrBytes(k, nonce, pt) ==
    LET base == KeyStreamBase(k, nonce)
    IN  [i \in 1..Len(pt) |-> (pt[i] + base + 7 * i) % 256]

TagBytes(k, nonce, body) ==
    LET base == KeyStreamBase(k, nonce) + SumSeq(body) + Len(body)
    IN  [j \in 1..TAG_BYTES |-> (base + 77 * j) % 256]

\* crypto.subtle.encrypt({name: 'AES-GCM', iv}, key, data): body || tag
AesGcmEncrypt(k, nonce, pt) ==
    LET body == CtrBytes(k, nonce, pt)
    IN  body \o TagBytes(k, nonce, body)

SealEntry(k, nonce, pt) ==
    [key |-> k, iv |-> nonce, pt |-> pt, ct |-> AesGcmEncrypt(k, nonce, pt)]

\* crypto.subtle.decrypt({name: 'AES-GCM', iv}, key, data) against the set
\* `known` of sealed ciphertexts: the plaintext, or a rejection
\* (OperationError) for anything that was not sealed under this key and nonce
AesGcmDecrypt(known, k, nonce, ct) ==
    IF Len(ct) >= TAG_BYTES
       /\ \E e \in known : e.key = k /\ e.iv = nonce /\ e.ct = ct
    THEN [ok |-> TRUE,
          pt |-> (CHOOSE e \in known : e.key = k /\ e.iv = nonce /\ e.ct = ct).pt]
    ELSE [ok |-> FALSE, pt |-> <<>>]

\* ------------------------------------------------------------------------
\* Values
\* ------------------------------------------------------------------------
NoBlob == [bytes |-> <<>>, type |-> <<>>]
NoError == [name |-> "none", message |-> ""]
NoOutcome ==
    [kind |-> "none", error |-> NoError, blob |-> NoBlob,
     filename |-> <<>>, mimeType |-> <<>>]

\* the Error thrown at crypto.ts:139; its message is written here in ASCII
\* (the source has two non-ASCII characters in the place of the first n)
AuthenticationFailure ==
    [name |-> "Error", message |-> "Contrasena incorrecta o archivo corrupto"]
\* errors of the runtime that decryptFile lets through
RangeErrorValue == [name |-> "RangeError", message |-> "runtime"]
SyntaxErrorValue == [name |-> "SyntaxError", message |-> "runtime"]
TypeErrorValue == [name |-> "TypeError", message |-> "runtime"]

Rejected(err) == [NoOutcome EXCEPT !.kind = "error", !.error = err]

\* ------------------------------------------------------------------------
\* encryptFile, the synchronous parts
\* ------------------------------------------------------------------------
\* crypto.ts:66-70
MetadataBytes(f) == Utf8Encode(JsonStringify(f.name, f.type))

\* the prefix taken from metadata.length (characters) instead of
\* metadataBytes.length (bytes)
DataToEncrypt_CharLength(f, fileBytes) ==
    Uint32Bytes(Len(JsonStringify(f.name, f.type))) \o MetadataBytes(f) \o fileBytes

\* crypto.ts:71-79: 4-byte length, metadata record, file content
DataToEncrypt(f, fileBytes) ==
    Uint32Bytes(Len(MetadataBytes(f))) \o MetadataBytes(f) \o fileBytes

\* the nonce written at offset 0 and the salt after it
Container_NonceFirst(saltBytes, nonce, ct) == nonce \o saltBytes \o ct

\* crypto.ts:92-97
Container(saltBytes, nonce, ct) == saltBytes \o nonce \o ct

\* crypto.ts:101
EncryptResult(saltBytes, nonce, ct) ==
    [NoOutcome EXCEPT !.kind = "blob",
        !.blob = [bytes |-> Container(saltBytes, nonce, ct),
                  type |-> APPLICATION_ENCRYPTED]]

\* ------------------------------------------------------------------------
\* decryptFile, the synchronous parts
\* ------------------------------------------------------------------------
\* crypto.ts:121-123
SaltOf(bytes) == Slice(bytes, 0, SALT_LENGTH)
IvOf(bytes) == Slice(bytes, SALT_LENGTH, SALT_LENGTH + IV_LENGTH)
EncryptedDataOf(bytes) == SliceFrom(bytes, SALT_LENGTH + IV_LENGTH)

\* no catch block: the rejection of crypto.subtle.decrypt goes through
CatchDecrypt_Rethrow == [name |-> "OperationError", message |-> "runtime"]

\* crypto.ts:138-140: every rejection of crypto.subtle.decrypt
CatchDecrypt == AuthenticationFailure

\* crypto.ts:160-164
DecryptResult(metadata, fileContent) ==
    [NoOutcome EXCEPT !.kind = "file",
        !.blob = [bytes |-> fileContent,
                  type |-> OrElse(PropType(metadata), OCTET_STREAM)],
        !.filename = OrElse(PropName(metadata), ARCHIVO_DESCIFRADO),
        !.mimeType = OrElse(PropType(metadata), OCTET_STREAM)]

\* crypto.ts:142-164, everything after a successful crypto.subtle.decrypt:
\* the outcome and the progress values reported on the way
ParseDecrypted(decryptedBytes) ==
    LET head == Slice(decryptedBytes, 0, 4)
        \* a 0-byte buffer gives an empty Uint32Array: [0] is undefined, and
        \* slice(4, NaN) is empty
        defined == Len(head) = 4
        metadataLength == IF defined THEN Uint32Value(head) ELSE 0
        metadataBytes ==
            IF defined THEN Slice(decryptedBytes, 4, 4 + metadataLength)
            ELSE <<>>
        metadata == JsonParse(Utf8Decode(metadataBytes))
        fileContent == SliceFrom(decryptedBytes, 4 + metadataLength)
    IN  IF Len(head) \in 1..3
        THEN \* Uint32Array over a buffer whose length is not a multiple of 4
             [outcome |-> Rejected(RangeErrorValue), reports |-> <<70>>]
        ELSE IF ~metadata.ok
        THEN [outcome |-> Rejected(SyntaxErrorValue), reports |-> <<70>>]
        ELSE IF metadata.kind = "null"
        THEN \* metadata.type on null, after onProgress(100)
             [outcome |-> Rejected(TypeErrorValue), reports |-> <<70, 100>>]
        ELSE [outcome |-> DecryptResult(metadata, fileContent),
              reports |-> <<70, 100>>]

\* ------------------------------------------------------------------------
\* Inputs of the model
\* ------------------------------------------------------------------------
\* number of distinct values crypto.getRandomValues can return for the salt
\* and for the nonce
NumSalts == 2
NumNonces == 2

RandomSalts == {[i \in 1..SALT_LENGTH |-> (r * i) % 256] : r \in 1..NumSalts}
RandomNonces == {[i \in 1..IV_LENGTH |-> (100 * r + i) % 256] : r \in 1..NumNonces}

A_TXT == <<97, 46, 116, 120, 116>>
TEXT_PLAIN == <<116, 101, 120, 116, 47, 112, 108, 97, 105, 110>>

MkFile(name, type, bytes) == [name |-> name, type |-> type, bytes |-> bytes]
NoFile == MkFile(<<>>, <<>>, <<>>)

\* "a.txt" text/plain ABC; a name with a two-byte character, a quote, a
\* backslash and a control character; a file with no type; a file with no name
PlainFiles ==
    { MkFile(A_TXT, TEXT_PLAIN, <<65, 66, 67>>),
      MkFile(<<241, 34, 92, 1>>, <<116>>, <<>>),
      MkFile(<<97>>, <<>>, <<0, 255>>),
      MkFile(<<>>, <<120>>, <<7>>) }

\* "p", "pass", "word"
Passwords == { <<112>>, <<112, 97, 115, 115>>, <<119, 111, 114, 100>> }

\* bits an attacker flips in one byte of a stored container
FlipBits == {0, 7}

\* plaintexts sealed by another program that knows the password:
\* prefix, record bytes, content
Frame(prefix, meta, content) == Uint32Bytes(prefix) \o meta \o content
EMPTY_RECORD == <<123, 125>>
NULL_TEXT == <<110, 117, 108, 108>>
ForeignPlaintexts ==
    { <<>>,
      <<1, 2, 3>>,
      Frame(2, EMPTY_RECORD, <<9, 9>>),
      Frame(1000, EMPTY_RECORD, <<>>),
      Frame(0, <<>>, EMPTY_RECORD),
      Frame(4, NULL_TEXT, <<5>>),
      Frame(12, <<123, 34, 110, 97, 109, 101, 34, 58, 34, 110, 34, 125>>, <<6>>),
      Frame(11, <<123, 34, 116, 121, 112, 101, 34, 58, 34, 34, 125>>, <<>>),
      Frame(13, <<123, 34, 110, 97, 109, 101, 34, 58, 110, 117, 108, 108, 125>>, <<>>),
      Frame(1, MetadataBytes(MkFile(<<97>>, <<98>>, <<>>)), <<>>),
      Frame(70000, <<123>>, <<>>),
      <<255, 255, 255, 255>> \o EMPTY_RECORD }

\* ------------------------------------------------------------------------
\* State
\* ------------------------------------------------------------------------
VARIABLES
    pc,             \* where the running invocation is suspended
    fn,             \* "encryptFile", "decryptFile" or "none"
    argFile,        \* its file argument
    argPassword,    \* its password argument
    hasCallback,    \* whether onProgress was supplied
    salt, iv, key,  \* locals of the invocation
    fileBuffer,
    dataToEncrypt,
    encryptedData,
    decryptedData,
    reported,       \* values passed to onProgress so far
    outcome,        \* value the promise settled with
    disk,           \* the file the user holds (last download)
    origin,         \* how the bytes on disk were made
    damage,         \* what happened to them since
    sealed,         \* AES-GCM ciphertexts in existence
    mode, file, password, status, progress, error,   \* EncryptionApp state
    timer,          \* pending setTimeout of handleProcess
    downloaded,     \* downloadBlob was called by the current handleProcess
    other           \* frame of a second invocation, suspended at an await

coreVars ==
    <<pc, fn, argFile, argPassword, hasCallback, salt, iv, key, fileBuffer,
      dataToEncrypt, encryptedData, decryptedData, reported, outcome>>
localVars == <<salt, iv, key, fileBuffer, dataToEncrypt, encryptedData, decryptedData>>
envVars == <<disk, origin, damage, sealed>>
uiVars == <<mode, file, password, status, error, timer, downloaded>>
appVars == <<mode, file, password, status, progress, error, timer, downloaded>>
vars == <<coreVars, envVars, appVars, other>>

\* the locals of an invocation that has not started (or is over)
IdleFrame ==
    [pc |-> "idle", fn |-> "none", argFile |-> NoFile, argPassword |-> <<>>,
     hasCallback |-> FALSE, salt |-> <<>>, iv |-> <<>>, key |-> NoKey,
     fileBuffer |-> <<>>, dataToEncrypt |-> <<>>, encryptedData |-> <<>>,
     decryptedData |-> <<>>, reported |-> <<>>, outcome |-> NoOutcome]

NoOrigin ==
    [how |-> "none", file |-> NoFile, password |-> <<>>, salt |-> <<>>,
     iv |-> <<>>, plaintext |-> <<>>, ct |-> <<>>]
NoDamage == [kind |-> "none", at |-> 0]

Init ==
    /\ pc = "idle"
    /\ fn = "none"
    /\ argFile = NoFile
    /\ argPassword = <<>>
    /\ hasCallback = FALSE
    /\ salt = <<>>
    /\ iv = <<>>
    /\ key = NoKey
    /\ fileBuffer = <<>>
    /\ dataToEncrypt = <<>>
    /\ encryptedData = <<>>
    /\ decryptedData = <<>>
    /\ reported = <<>>
    /\ outcome = NoOutcome
    /\ disk = MkFile(A_TXT, TEXT_PLAIN, <<65, 66, 67>>)
    /\ origin = NoOrigin
    /\ damage = NoDamage
    /\ sealed = {}
    /\ mode = "encrypt"
    /\ file = <<>>
    /\ password = <<>>
    /\ status = "idle"
    /\ progress = 0
    /\ error = ""
    /\ timer = "none"
    /\ downloaded = FALSE
    /\ other = IdleFrame

\* the last milestone of a stretch reported before the others
Report_LastFirst(vals) ==
    /\ reported' = IF hasCallback'
                   THEN reported \o <<vals[Len(vals)]>> \o SubSeq(vals, 1, Len(vals) - 1)
                   ELSE reported
    /\ progress' = IF hasCallback' THEN vals[Len(vals)] ELSE progress

\* onProgress?.(v1); ... : the callback, when present, is called with each
\* value in turn; setProgress keeps the last one
Report(vals) ==
    /\ reported' = IF hasCallback' THEN reported \o vals ELSE reported
    /\ progress' = IF hasCallback' THEN vals[Len(vals)] ELSE progress

\* ------------------------------------------------------------------------
\* encryptFile (crypto.ts:45-102), one action per stretch between awaits
\* ------------------------------------------------------------------------
\* lines 50-57, up to the await inside deriveKey
EncryptBegin(f, p, cb, s, n) ==
    /\ pc = "idle"
    /\ pc' = "enc_derive"
    /\ fn' = "encryptFile"
    /\ argFile' = f
    /\ argPassword' = p
    /\ hasCallback' = cb
    /\ salt' = s
    /\ iv' = n
    /\ reported' = IF cb THEN <<10, 20>> ELSE <<>>
    /\ progress' = IF cb THEN 20 ELSE progress
    /\ outcome' = NoOutcome
    /\ UNCHANGED <<key, fileBuffer, dataToEncrypt, encryptedData, decryptedData>>

\* a direct call of encryptFile
EncryptStart(f, p, cb, s, n) ==
    /\ EncryptBegin(f, p, cb, s, n)
    /\ UNCHANGED <<envVars, uiVars, other>>

\* a key kept in a binding that outlives the call: the key another
\* invocation derived is used when there is one
EncryptDerived_CachedKey ==
    /\ pc = "enc_derive"
    /\ pc' = "enc_read"
    /\ key' = IF other.key # NoKey THEN other.key ELSE DeriveKey(argPassword, salt)
    /\ UNCHANGED hasCallback
    /\ Report(<<30>>)
    /\ UNCHANGED <<fn, argFile, argPassword, salt, iv, fileBuffer,
                   dataToEncrypt, encryptedData, decryptedData, outcome>>
    /\ UNCHANGED <<envVars, uiVars, other>>

\* lines 57-61: the key arrives, file.arrayBuffer() is awaited
EncryptDerived ==
    /\ pc = "enc_derive"
    /\ pc' = "enc_read"
    /\ key' = DeriveKey(argPassword, salt)
    /\ UNCHANGED hasCallback
    /\ Report(<<30>>)
    /\ UNCHANGED <<fn, argFile, argPassword, salt, iv, fileBuffer,
                   dataToEncrypt, encryptedData, decryptedData, outcome>>
    /\ UNCHANGED <<envVars, uiVars, other>>

\* lines 61-87: the bytes arrive, the frame is built, encrypt is awaited
EncryptRead ==
    /\ pc = "enc_read"
    /\ pc' = "enc_cipher"
    /\ fileBuffer' = argFile.bytes
    /\ dataToEncrypt' = DataToEncrypt(argFile, argFile.bytes)
    /\ UNCHANGED hasCallback
    /\ Report(<<50, 70>>)
    /\ UNCHANGED <<fn, argFile, argPassword, salt, iv, key,
                   encryptedData, decryptedData, outcome>>
    /\ UNCHANGED <<envVars, uiVars, other>>

\* lines 83-101: the ciphertext arrives, the container is returned
EncryptCiphered ==
    /\ pc = "enc_cipher"
    /\ pc' = "resolved"
    /\ encryptedData' = AesGcmEncrypt(key, iv, dataToEncrypt)
    /\ outcome' = EncryptResult(salt, iv, encryptedData')
    /\ UNCHANGED hasCallback
    /\ Report(<<90, 100>>)
    /\ sealed' = sealed \cup {SealEntry(key, iv, dataToEncrypt)}
    /\ UNCHANGED <<fn, argFile, argPassword, salt, iv, key, fileBuffer,
                   dataToEncrypt, decryptedData>>
    /\ UNCHANGED <<disk, origin, damage, uiVars, other>>

\* ------------------------------------------------------------------------
\* decryptFile (crypto.ts:108-165), one action per stretch between awaits
\* ------------------------------------------------------------------------
\* lines 113-115, up to the await of file.arrayBuffer()
DecryptBegin(f, p, cb) ==
    /\ pc = "idle"
    /\ pc' = "dec_read"
    /\ fn' = "decryptFile"
    /\ argFile' = f
    /\ argPassword' = p
    /\ hasCallback' = cb
    /\ reported' = IF cb THEN <<10>> ELSE <<>>
    /\ progress' = IF cb THEN 10 ELSE progress
    /\ outcome' = NoOutcome
    /\ UNCHANGED localVars

\* a direct call of decryptFile
DecryptStart(f, p, cb) ==
    /\ DecryptBegin(f, p, cb)
    /\ UNCHANGED <<envVars, uiVars, other>>

\* lines 115-127: the bytes arrive and are split, deriveKey is awaited
DecryptRead ==
    /\ pc = "dec_read"
    /\ pc' = "dec_derive"
    /\ fileBuffer' = argFile.bytes
    /\ salt' = SaltOf(argFile.bytes)
    /\ iv' = IvOf(argFile.bytes)
    /\ encryptedData' = EncryptedDataOf(argFile.bytes)
    /\ UNCHANGED hasCallback
    /\ Report(<<20, 30>>)
    /\ UNCHANGED <<fn, argFile, argPassword, key, dataToEncrypt, decryptedData,
                   outcome>>
    /\ UNCHANGED <<envVars, uiVars, other>>

\* lines 127-137: the key arrives, crypto.subtle.decrypt is awaited
DecryptDerived ==
    /\ pc = "dec_derive"
    /\ pc' = "dec_cipher"
    /\ key' = DeriveKey(argPassword, salt)
    /\ UNCHANGED hasCallback
    /\ Report(<<50>>)
    /\ UNCHANGED <<fn, argFile, argPassword, salt, iv, fileBuffer,
                   dataToEncrypt, encryptedData, decryptedData, outcome>>
    /\ UNCHANGED <<envVars, uiVars, other>>

\* lines 131-140: crypto.subtle.decrypt rejects, the catch block rethrows
DecryptRejected ==
    /\ pc = "dec_cipher"
    /\ ~AesGcmDecrypt(sealed, key, iv, encryptedData).ok
    /\ pc' = "rejected"
    /\ outcome' = Rejected(CatchDecrypt)
    /\ UNCHANGED <<fn, argFile, argPassword, hasCallback, localVars, reported>>
    /\ UNCHANGED <<envVars, appVars, other>>

\* lines 133-164: the plaintext arrives and is unpacked
DecryptOpened ==
    /\ pc = "dec_cipher"
    /\ AesGcmDecrypt(sealed, key, iv, encryptedData).ok
    /\ decryptedData' = AesGcmDecrypt(sealed, key, iv, encryptedData).pt
    /\ outcome' = ParseDecrypted(decryptedData').outcome
    /\ pc' = IF outcome'.kind = "error" THEN "rejected" ELSE "resolved"
    /\ UNCHANGED hasCallback
    /\ Report(ParseDecrypted(decryptedData').reports)
    /\ UNCHANGED <<fn, argFile, argPassword, salt, iv, key, fileBuffer,
                   dataToEncrypt, encryptedData>>
    /\ UNCHANGED <<envVars, uiVars, other>>

\* the invocation is over: its locals die with it
CoreReset ==
    /\ pc' = "idle"
    /\ fn' = "none"
    /\ argFile' = NoFile
    /\ argPassword' = <<>>
    /\ hasCallback' = FALSE
    /\ salt' = <<>>
    /\ iv' = <<>>
    /\ key' = NoKey
    /\ fileBuffer' = <<>>
    /\ dataToEncrypt' = <<>>
    /\ encryptedData' = <<>>
    /\ decryptedData' = <<>>
    /\ reported' = <<>>
    /\ outcome' = NoOutcome

\* ------------------------------------------------------------------------
\* The caller and the world around a direct invocation
\* ------------------------------------------------------------------------
\* the file a saved container becomes
SavedContainer ==
    MkFile(argFile.name \o DOT_ENCRYPTED, outcome.blob.type, outcome.blob.bytes)

OriginOfCall ==
    [how |-> "encryptFile", file |-> argFile, password |-> argPassword,
     salt |-> salt, iv |-> iv, plaintext |-> dataToEncrypt, ct |-> encryptedData]

\* the container just written replaces the file on disk; the ciphertexts of
\* files that no longer exist cannot be presented again and are forgotten
SaveContainer ==
    /\ disk' = SavedContainer
    /\ origin' = OriginOfCall
    /\ damage' = NoDamage
    /\ sealed' = {e \in sealed : e.key = key /\ e.iv = iv /\ e.ct = encryptedData}

\* the caller takes the settled promise; a container is saved to disk
Collect ==
    /\ pc \in {"resolved", "rejected"}
    /\ IF fn = "encryptFile" /\ pc = "resolved"
       THEN SaveContainer
       ELSE UNCHANGED envVars
    /\ CoreReset
    /\ UNCHANGED <<appVars, other>>

\* one bit of one byte of the stored container is flipped
Tamper(pos, bit) ==
    /\ pc = "idle"
    /\ origin.how = "encryptFile"
    /\ damage.kind = "none"
    /\ pos \in 0..(Len(disk.bytes) - 1)
    /\ disk' = [disk EXCEPT !.bytes[pos + 1] = FlipBit(@, bit)]
    /\ damage' = [kind |-> "flipped", at |-> pos]
    /\ UNCHANGED <<origin, sealed, coreVars, appVars, other>>

\* the stored container is cut to its first n bytes
Truncate(n) ==
    /\ pc = "idle"
    /\ origin.how = "encryptFile"
    /\ damage.kind = "none"
    /\ n \in 0..(Len(disk.bytes) - 1)
    /\ disk' = [disk EXCEPT !.bytes = Slice(@, 0, n)]
    /\ damage' = [kind |-> "truncated", at |-> n]
    /\ UNCHANGED <<origin, sealed, coreVars, appVars, other>>

\* another program that knows the password seals a plaintext of its own
ForeignSeal(pt, p, s, n) ==
    LET e == SealEntry(DeriveKey(p, s), n, pt)
    IN  /\ pc = "idle"
        /\ origin.how = "none"
        /\ disk' = MkFile(DOT_ENCRYPTED, APPLICATION_ENCRYPTED, Container(s, n, e.ct))
        /\ origin' = [how |-> "foreign", file |-> NoFile, password |-> p,
                      salt |-> s, iv |-> n, plaintext |-> pt, ct |-> e.ct]
        /\ damage' = NoDamage
        /\ sealed' = {e}
        /\ UNCHANGED <<coreVars, appVars, other>>

\* the user deletes the container and is back to an ordinary file
Discard ==
    /\ pc = "idle"
    /\ origin.how # "none"
    /\ disk' = MkFile(A_TXT, TEXT_PLAIN, <<65, 66, 67>>)
    /\ origin' = NoOrigin
    /\ damage' = NoDamage
    /\ sealed' = {}
    /\ UNCHANGED <<coreVars, appVars, other>>

\* a direct caller encrypts while it holds no container
Next ==
    \/ /\ origin.how = "none"
       /\ \E f \in PlainFiles, p \in Passwords, cb \in BOOLEAN,
             s \in RandomSalts, n \in RandomNonces : EncryptStart(f, p, cb, s, n)
    \/ EncryptDerived
    \/ EncryptRead
    \/ EncryptCiphered
    \/ \E p \in Passwords, cb \in BOOLEAN : DecryptStart(disk, p, cb)
    \/ DecryptRead
    \/ DecryptDerived
    \/ DecryptRejected
    \/ DecryptOpened
    \/ Collect
    \/ \E pos \in 0..(Len(disk.bytes) - 1), bit \in FlipBits : Tamper(pos, bit)
    \/ \E n \in 0..(Len(disk.bytes) - 1) : Truncate(n)
    \/ \E pt \in ForeignPlaintexts, p \in Passwords,
          s \in RandomSalts, n \in RandomNonces : ForeignSeal(pt, p, s, n)
    \/ Discard

Spec == Init /\ [][Next]_vars

\* ------------------------------------------------------------------------
\* Two invocations interleaved at their awaits.  Every binding encryptFile,
\* decryptFile and deriveKey write is a const of the call (crypto.ts:15-39,
\* 45-102, 108-165); the module level bindings (crypto.ts:6-10) are never
\* assigned.  The invocation that is not running keeps its bindings in
\* `other`.
\* ------------------------------------------------------------------------
\* the bindings of the running invocation
Running ==
    [pc |-> pc, fn |-> fn, argFile |-> argFile, argPassword |-> argPassword,
     hasCallback |-> hasCallback, salt |-> salt, iv |-> iv, key |-> key,
     fileBuffer |-> fileBuffer, dataToEncrypt |-> dataToEncrypt,
     encryptedData |-> encryptedData, decryptedData |-> decryptedData,
     reported |-> reported, outcome |-> outcome]

\* the running invocation stays suspended at its await (or has not been
\* called, or has settled) and the event loop turns to the other one
Switch ==
    /\ other' = Running
    /\ pc' = other.pc
    /\ fn' = other.fn
    /\ argFile' = other.argFile
    /\ argPassword' = other.argPassword
    /\ hasCallback' = other.hasCallback
    /\ salt' = other.salt
    /\ iv' = other.iv
    /\ key' = other.key
    /\ fileBuffer' = other.fileBuffer
    /\ dataToEncrypt' = other.dataToEncrypt
    /\ encryptedData' = other.encryptedData
    /\ decryptedData' = other.decryptedData
    /\ reported' = other.reported
    /\ outcome' = other.outcome
    /\ UNCHANGED <<envVars, appVars>>

\* a sealed ciphertext somebody still holds: as the container on disk, as
\* the input of the other invocation, or as its result
Held(e, d) ==
    \/ Container(e.key.salt, e.iv, e.ct) \in {d.bytes, other.argFile.bytes}
    \/ /\ other.fn = "encryptFile"
       /\ other.pc = "resolved"
       /\ e.key = other.key /\ e.iv = other.iv /\ e.ct = other.encryptedData

\* the caller of two invocations takes a settled promise; the first
\* container it gets is saved to disk
ConcCollect ==
    /\ pc \in {"resolved", "rejected"}
    /\ IF fn = "encryptFile" /\ pc = "resolved" /\ origin.how = "none"
       THEN /\ disk' = SavedContainer
            /\ origin' = OriginOfCall
            /\ damage' = NoDamage
       ELSE UNCHANGED <<disk, origin, damage>>
    /\ sealed' = {e \in sealed : Held(e, disk')}
    /\ CoreReset
    /\ UNCHANGED <<appVars, other>>

\* "a.txt" and the file with no type; "pass" and "word"
ConcFiles ==
    { MkFile(A_TXT, TEXT_PLAIN, <<65, 66, 67>>), MkFile(<<97>>, <<>>, <<0, 255>>) }
ConcPasswords == { <<112, 97, 115, 115>>, <<119, 111, 114, 100>> }

ConcNext ==
    \/ \E f \in ConcFiles, p \in ConcPasswords,
          s \in RandomSalts, n \in RandomNonces : EncryptStart(f, p, FALSE, s, n)
    \/ EncryptDerived
    \/ EncryptRead
    \/ EncryptCiphered
    \/ \E p \in ConcPasswords : DecryptStart(disk, p, FALSE)
    \/ DecryptRead
    \/ DecryptDerived
    \/ DecryptRejected
    \/ DecryptOpened
    \/ Switch
    \/ ConcCollect

ConcSpec == Init /\ [][ConcNext]_vars

\* ------------------------------------------------------------------------
\* EncryptionApp (components/PasswordInput.tsx:128-319) with FileDropZone
\* (lib/crypto.ts:190-223) and PasswordInput (components/PasswordInput.tsx:14)
\* file is <<>> for null and <<f>> for a selected file f
\* ------------------------------------------------------------------------
\* what the user can type into the password field: "", "p", "pass", "word"
TypedPasswords == Passwords \cup {<<>>}

\* files the user can pick: an ordinary file or the last download
Pickable == PlainFiles \cup {disk}

\* controls that stay enabled while an operation runs
Disabled_Never == FALSE

\* status === 'processing' disables the toggle, the drop zone and the field
Disabled == status = "processing"

\* PasswordInput.tsx:164
canProcess == file # <<>> /\ Len(password) >= 4 /\ status = "idle"

\* mode toggle, PasswordInput.tsx:209-215
SetMode(m) ==
    /\ ~Disabled
    /\ mode' = m
    /\ file' = <<>>
    /\ password' = <<>>
    /\ error' = ""
    /\ UNCHANGED <<status, progress, timer, downloaded, coreVars, envVars, other>>

\* FileDropZone.handleDrop, crypto.ts:203-212
HandleDrop(f) ==
    /\ ~Disabled
    /\ file' = <<f>>
    /\ UNCHANGED <<mode, password, status, progress, error, timer, downloaded,
                   coreVars, envVars, other>>

\* FileDropZone.handleFileInput, crypto.ts:214-219; the input element is
\* disabled while a file is selected (crypto.ts:244)
HandleFileInput(f) ==
    /\ ~Disabled
    /\ file = <<>>
    /\ file' = <<f>>
    /\ UNCHANGED <<mode, password, status, progress, error, timer, downloaded,
                   coreVars, envVars, other>>

\* FileDropZone.handleRemove, crypto.ts:221-223; the button is rendered for
\* a selected file when the zone is not disabled (crypto.ts:248, 265)
HandleRemove ==
    /\ ~Disabled
    /\ file # <<>>
    /\ file' = <<>>
    /\ UNCHANGED <<mode, password, status, progress, error, timer, downloaded,
                   coreVars, envVars, other>>

\* PasswordInput onChange, PasswordInput.tsx:33, 251-253
SetPassword(v) ==
    /\ ~Disabled
    /\ password' = v
    /\ UNCHANGED <<mode, file, status, progress, error, timer, downloaded,
                   coreVars, envVars, other>>

\* handleProcess up to its await, PasswordInput.tsx:136-148; the button is
\* enabled by canProcess (PasswordInput.tsx:297)
HandleProcess(s, n) ==
    /\ canProcess
    /\ file # <<>> /\ password # <<>>
    /\ status' = "processing"
    /\ error' = ""
    /\ downloaded' = FALSE
    /\ IF mode = "encrypt"
       THEN EncryptBegin(file[1], password, TRUE, s, n)
       ELSE DecryptBegin(file[1], password, TRUE)
    /\ UNCHANGED <<mode, file, password, timer, envVars, other>>

\* downloadBlob of a decrypted file: it replaces the file the user holds
SaveDecrypted ==
    /\ disk' = MkFile(outcome.filename, outcome.blob.type, outcome.blob.bytes)
    /\ origin' = NoOrigin
    /\ damage' = NoDamage
    /\ sealed' = {}

\* handleProcess after the await resolved, PasswordInput.tsx:145-156
ProcessResolved ==
    /\ pc = "resolved"
    /\ IF fn = "encryptFile" THEN SaveContainer ELSE SaveDecrypted
    /\ downloaded' = TRUE
    /\ status' = "success"
    /\ timer' = "success"
    /\ CoreReset
    /\ UNCHANGED <<mode, file, password, progress, error, other>>

\* a catch block that reports success
ProcessRejected_MarksSuccess ==
    /\ pc = "rejected"
    /\ error' = outcome.error.message
    /\ status' = "success"
    /\ timer' = "success"
    /\ CoreReset
    /\ UNCHANGED <<mode, file, password, progress, downloaded, envVars, other>>

\* handleProcess after the await rejected, PasswordInput.tsx:157-161
ProcessRejected ==
    /\ pc = "rejected"
    /\ error' = outcome.error.message
    /\ status' = "error"
    /\ timer' = "error"
    /\ CoreReset
    /\ UNCHANGED <<mode, file, password, progress, downloaded, envVars, other>>

\* the setTimeout callbacks, PasswordInput.tsx:152-156 and 160
TimerFires ==
    /\ timer # "none"
    /\ timer' = "none"
    /\ status' = "idle"
    /\ IF timer = "success"
       THEN file' = <<>> /\ password' = <<>>
       ELSE UNCHANGED <<file, password>>
    /\ UNCHANGED <<mode, progress, error, downloaded, coreVars, envVars, other>>

\* the user encrypts ordinary files (an earlier download only once it has
\* been decrypted again)
AppNext ==
    \/ \E m \in {"encrypt", "decrypt"} : SetMode(m)
    \/ \E f \in Pickable : HandleDrop(f)
    \/ \E f \in Pickable : HandleFileInput(f)
    \/ HandleRemove
    \/ \E v \in TypedPasswords : SetPassword(v)
    \/ /\ file # <<>>
       /\ mode = "encrypt" => origin.how = "none" \/ file[1] \in PlainFiles
       /\ \E s \in RandomSalts, n \in RandomNonces : HandleProcess(s, n)
    \/ EncryptDerived
    \/ EncryptRead
    \/ EncryptCiphered
    \/ DecryptRead
    \/ DecryptDerived
    \/ DecryptRejected
    \/ DecryptOpened
    \/ ProcessResolved
    \/ ProcessRejected
    \/ TimerFires

AppSpec == Init /\ [][AppNext]_vars

\* ------------------------------------------------------------------------
\* Properties
\* ------------------------------------------------------------------------
Settled == pc \in {"resolved", "rejected"}

\* decryptFile has settled on the container encryptFile wrote, untouched
DecryptedOwn ==
    Settled /\ fn = "decryptFile" /\ origin.how = "encryptFile"
    /\ damage.kind = "none"

\* little-endian value of the first four bytes, written out
Prefix(d) == d[1] + 256 * d[2] + 65536 * d[3] + 16777216 * d[4]

\* C1: Round-trip.  For every file (empty ones too), filename, MIME type
\* (the empty string too) and password of length >= 1, decryptFile with the
\* same password on the output of encryptFile returns exactly the content,
\* the filename and the MIME type that were encrypted.
C1_RoundTrip ==
    (DecryptedOwn /\ argPassword = origin.password) =>
        /\ pc = "resolved"
        /\ outcome.kind = "file"
        /\ outcome.blob.bytes = origin.file.bytes
        /\ outcome.filename = origin.file.name
        /\ outcome.mimeType = origin.file.type

\* C2: decryptFile on an input shorter than 28 bytes fails with an error of
\* its own kind (MalformedContainer), which is not the AuthenticationFailure
\* error raised when AEAD decryption fails.
C2_ShortInputMalformed ==
    (Settled /\ fn = "decryptFile" /\ Len(argFile.bytes) < 28) =>
        /\ pc = "rejected"
        /\ outcome.kind = "error"
        /\ outcome.error # AuthenticationFailure

\* C3: Wrong password.  decryptFile with a password other than the one given
\* to encryptFile fails with the AuthenticationFailure error and returns no
\* result.
C3_WrongPassword ==
    (DecryptedOwn /\ argPassword # origin.password) =>
        /\ pc = "rejected"
        /\ outcome = Rejected(AuthenticationFailure)
        /\ outcome.blob = NoBlob /\ outcome.filename = <<>>

C3_Witness ==
    /\ DecryptedOwn
    /\ argPassword # origin.password
    /\ pc = "rejected"
    /\ Len(argFile.bytes) >= 28 + TAG_BYTES

\* C4: Tampering and truncation.  For a container written by encryptFile,
\* a change at any offset from 28 on, or a cut that leaves at least 28
\* bytes, makes decryptFile with the correct password fail with the very
\* error a wrong password produces (same name, same message), and nothing is
\* returned.
C4_TamperIsAuthenticationFailure ==
    ( /\ Settled /\ fn = "decryptFile"
      /\ origin.how = "encryptFile"
      /\ argPassword = origin.password
      /\ damage.kind \in {"flipped", "truncated"}
      /\ damage.at >= 28 ) =>
        /\ pc = "rejected"
        /\ outcome.error.name = "Error"
        /\ outcome.error.message = "Contrasena incorrecta o archivo corrupto"
        /\ outcome.blob = NoBlob /\ outcome.filename = <<>>
        /\ outcome.mimeType = <<>>

C4_Witness ==
    /\ Settled /\ fn = "decryptFile"
    /\ origin.how = "encryptFile"
    /\ argPassword = origin.password
    /\ damage.kind = "flipped"
    /\ damage.at >= 28
    /\ pc = "rejected"

\* C5: Container layout.  The output of encryptFile is salt (bytes 0..15),
\* nonce (bytes 16..27), ciphertext (byte 28 to the end), so its length is
\* 16 + 12 + the ciphertext length; decryptFile splits its input at the same
\* offsets, derives the key from that salt and opens the ciphertext with
\* that nonce.
C5_ContainerLayout ==
    /\ (pc = "resolved" /\ fn = "encryptFile") =>
        LET out == outcome.blob.bytes
        IN  /\ Len(salt) = 16 /\ Len(iv) = 12
            /\ Len(out) = 16 + 12 + Len(encryptedData)
            /\ SubSeq(out, 1, 16) = salt
            /\ SubSeq(out, 17, 28) = iv
            /\ SubSeq(out, 29, Len(out)) = encryptedData
    /\ ( /\ fn = "decryptFile"
         /\ pc \in {"dec_derive", "dec_cipher", "resolved", "rejected"}
         /\ Len(argFile.bytes) >= 28 ) =>
        /\ salt = SubSeq(argFile.bytes, 1, 16)
        /\ iv = SubSeq(argFile.bytes, 17, 28)
        /\ encryptedData = SubSeq(argFile.bytes, 29, Len(argFile.bytes))
        /\ pc # "dec_derive" =>
            /\ key.salt = SubSeq(argFile.bytes, 1, 16)
            /\ key.pw = Utf8Encode(argPassword)
    /\ (DecryptedOwn /\ argPassword = origin.password) =>
        /\ salt = origin.salt
        /\ iv = origin.iv
        /\ encryptedData = origin.ct
        /\ decryptedData = origin.plaintext

C5_Witness ==
    /\ DecryptedOwn
    /\ argPassword = origin.password
    /\ pc = "resolved"
    /\ decryptedData = origin.plaintext
    /\ Len(decryptedData) > 4

\* C6: Inner framing.  The plaintext encryptFile hands to the cipher is a
\* 4-byte length, the metadata record, the file bytes; the length is the
\* byte length of the record (the 4 bytes not counted), so the plaintext is
\* 4 + len(metadata) + len(file) bytes long, for an empty file too.
C6_InnerFraming ==
    (fn = "encryptFile" /\ pc \in {"enc_cipher", "resolved"}) =>
        LET d == dataToEncrypt
            n == Prefix(d)
            record == JsonParse(Utf8Decode(SubSeq(d, 5, 4 + n)))
        IN  /\ Len(d) >= 4
            /\ Len(d) = 4 + n + Len(argFile.bytes)
            /\ SubSeq(d, 5 + n, Len(d)) = argFile.bytes
            /\ SubSeq(d, 5, 4 + n) = Utf8Encode(JsonStringify(argFile.name, argFile.type))
            /\ record.ok /\ record.kind = "object"
            /\ record.hasName /\ record.name = JsString(argFile.name)
            /\ record.hasType /\ record.type = JsString(argFile.type)

\* an empty file whose name takes more bytes than characters
C6_Witness ==
    /\ fn = "encryptFile" /\ pc = "enc_cipher"
    /\ argFile.bytes = <<>>
    /\ argFile.name = <<241, 34, 92, 1>>
    /\ Len(dataToEncrypt) = 4 + Prefix(dataToEncrypt)

\* outcome of the running invocation as a function of its file, password,
\* random bytes and the ciphertexts in existence, the callback left out
ExpectedOutcome ==
    IF fn = "encryptFile"
    THEN EncryptResult(salt, iv,
            AesGcmEncrypt(DeriveKey(argPassword, salt), iv,
                          DataToEncrypt(argFile, argFile.bytes)))
    ELSE LET b == argFile.bytes
             r == AesGcmDecrypt(sealed, DeriveKey(argPassword, SaltOf(b)),
                                IvOf(b), EncryptedDataOf(b))
         IN  IF r.ok THEN ParseDecrypted(r.pt).outcome
             ELSE Rejected(AuthenticationFailure)

C8_AllOrNothing ==
    [][ /\ pc' = "rejected" =>
            /\ outcome'.kind = "error" /\ outcome'.error # NoError
            /\ outcome'.blob = NoBlob
            /\ outcome'.filename = <<>> /\ outcome'.mimeType = <<>>
        /\ pc' = "resolved" =>
            /\ outcome'.kind \in {"blob", "file"}
            /\ outcome'.error = NoError
        /\ pc' \notin {"resolved", "rejected"} => outcome' = NoOutcome
        /\ (pc = "rejected" /\ pc' # "rejected") =>
            /\ status' = "error"
            /\ ~downloaded'
            /\ disk' = disk
        /\ (pc = "resolved" /\ pc' # "resolved") =>
            /\ status' = "success"
            /\ downloaded'
        /\ status' = "error" => ~downloaded'
        /\ status' = "success" => downloaded'
      ]_vars

C8_Witness ==
    /\ status = "error"
    /\ ~downloaded
    /\ error = "Contrasena incorrecta o archivo corrupto"
    /\ mode = "decrypt"
    /\ pc = "idle"

\* decryptFile has settled on a container another program sealed with the
\* password now given: AEAD decryption succeeded with origin.plaintext
DecryptedForeign ==
    Settled /\ fn = "decryptFile" /\ origin.how = "foreign"
    /\ damage.kind = "none" /\ argPassword = origin.password

\* C9: Inconsistent inner framing is rejected.  When AEAD decryption
\* succeeds but the plaintext is shorter than 4 bytes, or its length prefix
\* is larger than the number of bytes after it, decryptFile fails with
\* MalformedContainer and returns no result.
C9_InconsistentFramingRejected ==
    ( /\ DecryptedForeign
      /\ \/ Len(origin.plaintext) < 4
         \/ Uint32Value(SubSeq(origin.plaintext, 1, 4)) > Len(origin.plaintext) - 4 ) =>
        /\ pc = "rejected"
        /\ outcome.kind = "error"
        /\ outcome.error # AuthenticationFailure

\* C10: Metadata fallback.  A record without a name gives the filename
\* 'archivo_descifrado', a record without a type gives
\* 'application/octet-stream' (blob and mimeType); the fallbacks are used
\* only for a missing field, a field that is present is returned unchanged.
C10_FallbackOnlyWhenMissing ==
    (pc = "resolved" /\ fn = "decryptFile") =>
        LET d == decryptedData
            record == JsonParse(Utf8Decode(Slice(d, 4, 4 + Uint32Value(SubSeq(d, 1, 4)))))
        IN  /\ ~record.hasName => outcome.filename = ARCHIVO_DESCIFRADO
            /\ ~record.hasType =>
                    outcome.mimeType = OCTET_STREAM /\ outcome.blob.type = OCTET_STREAM
            /\ (record.hasName /\ record.name.t = "string") =>
                    outcome.filename = record.name.s
            /\ (record.hasType /\ record.type.t = "string") =>
                    outcome.mimeType = record.type.s /\ outcome.blob.type = record.type.s

\* the ciphertexts in existence for an invocation that runs alone: the one
\* in the container on disk
AloneKnown ==
    IF origin.how = "encryptFile"
    THEN {SealEntry(DeriveKey(origin.password, origin.salt), origin.iv,
                    origin.plaintext)}
    ELSE {}

\* what the invocation with the bindings c returns when it runs alone with
\* the same file, password and random bytes
AloneOutcome(c) ==
    IF c.fn = "encryptFile"
    THEN EncryptResult(c.salt, c.iv,
            AesGcmEncrypt(DeriveKey(c.argPassword, c.salt), c.iv,
                          DataToEncrypt(c.argFile, c.argFile.bytes)))
    ELSE LET b == c.argFile.bytes
             r == AesGcmDecrypt(AloneKnown, DeriveKey(c.argPassword, SaltOf(b)),
                                IvOf(b), EncryptedDataOf(b))
         IN  IF r.ok THEN ParseDecrypted(r.pt).outcome
             ELSE Rejected(AuthenticationFailure)

\* the key of an invocation is the one derived from its own password and
\* salt, and its result is the one it gives alone
FrameOk(c) ==
    /\ c.key # NoKey => c.key = DeriveKey(c.argPassword, c.salt)
    /\ c.pc \in {"resolved", "rejected"} => c.outcome = AloneOutcome(c)

\* C11: Independence of concurrent calls.  When two encryptFile/decryptFile
\* invocations run interleaved at their suspension points, each draws its
\* own salt and nonce and derives its own key, a step of one invocation
\* writes no binding of the other, and each invocation's result equals the
\* result it produces when run alone with the same inputs and random bytes.
C11_Independence ==
    [][ /\ FrameOk(Running') /\ FrameOk(other')
        /\ other' # other => other' = Running /\ Running' = other
        /\ (other' = other /\ pc = "idle" /\ fn' = "encryptFile") =>
                salt' \in RandomSalts /\ iv' \in RandomNonces
        /\ (other' = other /\ pc # "idle" /\ pc' # "idle") =>
                /\ fn' = fn /\ argFile' = argFile /\ argPassword' = argPassword
                /\ fn = "encryptFile" => salt' = salt /\ iv' = iv
                /\ key # NoKey => key' = key ]_vars

\* an encryption has resolved while another one, with another file, password,
\* salt and nonce, is still waiting for its ciphertext
C11_Witness ==
    /\ pc = "resolved" /\ fn = "encryptFile"
    /\ other.pc = "enc_cipher" /\ other.fn = "encryptFile"
    /\ salt # other.salt /\ iv # other.iv
    /\ argPassword # other.argPassword /\ argFile # other.argFile
    /\ key # other.key

\* C12: UI gating.  In EncryptionApp an operation is started only when a
\* file is selected, the password has at least 4 characters and the status
\* is 'idle'; while the status is 'processing' no user action (drop, file
\* input, remove, typing, mode toggle) changes the selected file, the
\* password or the mode, so at most one operation is in flight at any time
\* and it completes with the file, password and mode it was started with.
C12_UiGating ==
    [][ /\ (pc = "idle" /\ pc' # "idle") =>
            /\ file # <<>> /\ Len(password) >= 4 /\ status = "idle"
            /\ status' = "processing"
            /\ argFile' = file[1] /\ argPassword' = password
            /\ fn' = IF mode = "encrypt" THEN "encryptFile" ELSE "decryptFile"
        /\ status = "processing" =>
            file' = file /\ password' = password /\ mode' = mode
        /\ (status' = "processing") <=> (pc' # "idle")
        /\ other' = IdleFrame
        /\ pc' # "idle" =>
            /\ file' = <<argFile'>> /\ password' = argPassword'
            /\ (mode' = "encrypt") <=> (fn' = "encryptFile") ]_vars

\* a decryption started from the app has resolved and is about to be
\* downloaded: the file, the password and the mode are still its own
C12_Witness ==
    /\ status = "processing" /\ pc = "resolved" /\ fn = "decryptFile"
    /\ mode = "decrypt" /\ file = <<argFile>> /\ password = argPassword
    /\ Len(password) >= 4 /\ other = IdleFrame

====
